---------------------------- MODULE Spec2Model ----------------------------
(***************************************************************************)
(* Frame-body decoders of cdrs: the ERROR body decoder                     *)
(* (src/src/frame/frame_error.rs) and the CQL value decoders               *)
(* (src/src/types/data_serialization_types.rs).                            *)
(*                                                                         *)
(* A byte is a number in 0..255, a buffer a sequence of bytes, a cursor a  *)
(* buffer with the count `pos` of bytes already consumed.  A decoder that  *)
(* reads from a cursor yields Ok(value, pos') or Panic(why): the           *)
(* from_cursor functions return plain values, not Results, so a failure    *)
(* inside one of them can only unwind.  The value decoders return          *)
(* Result<_, io::Error>: Good(value), Err(kind) or Panic(why).             *)
(*                                                                         *)
(* Integers wider than 31 bits do not fit TLC's 32-bit integers: a u64    *)
(* or i64 is kept as its 8 big-endian digits (base 256, two's complement). *)
(***************************************************************************)
EXTENDS Integers, Sequences, FiniteSets, TLC

\* input: the byte buffer handed to a decoder; fn: the decoder that was
\* called on it ("none" before the call); out: what the call came to.
VARIABLES input, fn, out

vars == <<input, fn, out>>

(***************************************************************************)
(* Outcomes.                                                               *)
(***************************************************************************)
Ok(v, p)   == [kind |-> "Ok", value |-> v, pos |-> p]
Panic(why) == [kind |-> "Panic", why |-> why]
Good(v)    == [kind |-> "Ok", value |-> v]
Err(e)     == [kind |-> "Err", err |-> e]

(***************************************************************************)
(* Bytes and fixed-width words.                                            *)
(***************************************************************************)
RECURSIVE Repeat(_, _)
Repeat(b, n) == IF n <= 0 THEN <<>> ELSE <<b>> \o Repeat(b, n - 1)

\* The last n elements of s (all of s when it is shorter).
LastN(s, n) == IF Len(s) <= n THEN s ELSE SubSeq(s, Len(s) - n + 1, Len(s))

\* An unsigned byte reinterpreted as i8.
SignedByte(b) == IF b >= 128 THEN b - 256 ELSE b

\* `as i32` / `as i16` of a u64 or i64: the low 4 / 2 digits, two's complement.
as_i32(d) ==
    LET w == LastN(d, 4)
    IN  SignedByte(w[1]) * 16777216 + w[2] * 65536 + w[3] * 256 + w[4]

as_i16(d) ==
    LET w == LastN(d, 2)
    IN  SignedByte(w[1]) * 256 + w[2]

\* `as i64` of a u64 keeps the bit pattern: the same 8 digits.
as_i64(d) == d

\* `as u8` of a u64: the lowest digit.
as_u8(d) == d[Len(d)]

(***************************************************************************)
(* types/mod.rs: the cursor primitives the two files call.                 *)
(***************************************************************************)
\* try_from_bytes(bytes) -> Result<u64, io::Error>: the slice read as one
\* unsigned big-endian integer of Len(bytes) bytes.
try_from_bytes(bytes) ==
    IF Len(bytes) = 0 \/ Len(bytes) > 8
    THEN Err("InvalidLength")
    ELSE Good(Repeat(0, 8 - Len(bytes)) \o bytes)

\* try_i_from_bytes(bytes) -> Result<i64, io::Error>: the same, signed
\* (sign-extended to 8 digits).
try_i_from_bytes(bytes) ==
    IF Len(bytes) = 0 \/ Len(bytes) > 8
    THEN Err("InvalidLength")
    ELSE Good(Repeat(IF bytes[1] >= 128 THEN 255 ELSE 0, 8 - Len(bytes)) \o bytes)

\* from_bytes(bytes) -> u64: try_from_bytes unwrapped.
from_bytes(bytes) == try_from_bytes(bytes).value

\* from_u16_bytes(bytes) -> u16: two bytes, big-endian.
from_u16_bytes(bytes) == bytes[1] * 256 + bytes[2]

\* cursor_next_value(cursor, len): the next len bytes, the cursor advanced
\* past them; fewer than len bytes left is an end-of-buffer failure.
cursor_next_value(buf, pos, len) ==
    IF pos + len > Len(buf)
    THEN Panic("UnexpectedEndOfBuffer")
    ELSE Ok(SubSeq(buf, pos + 1, pos + len), pos + len)

\* CInt::from_cursor: a 4-byte big-endian signed integer.
CInt_from_cursor(buf, pos) ==
    LET r == cursor_next_value(buf, pos, 4)
    IN  IF r.kind # "Ok" THEN r ELSE Ok(as_i32(from_bytes(r.value)), r.pos)

\* CString::from_cursor: a 2-byte unsigned length, then that many bytes
\* (ASCII here, so the text is its bytes).
CString_from_cursor(buf, pos) ==
    LET l == cursor_next_value(buf, pos, 2)
    IN  IF l.kind # "Ok" THEN l
        ELSE cursor_next_value(buf, l.pos, from_u16_bytes(l.value))

\* CStringList::from_cursor: a 2-byte unsigned count, then that many strings.
RECURSIVE NextStrings(_, _, _)
NextStrings(buf, pos, n) ==
    IF n <= 0 THEN Ok(<<>>, pos)
    ELSE LET s == CString_from_cursor(buf, pos)
         IN  IF s.kind # "Ok" THEN s
             ELSE LET rest == NextStrings(buf, s.pos, n - 1)
                  IN  IF rest.kind # "Ok" THEN rest
                      ELSE Ok(<<s.value>> \o rest.value, rest.pos)

CStringList_from_cursor(buf, pos) ==
    LET l == cursor_next_value(buf, pos, 2)
    IN  IF l.kind # "Ok" THEN l
        ELSE NextStrings(buf, l.pos, from_u16_bytes(l.value))

\* CBytes::from_cursor: a 4-byte signed length; -1 is the null marker, any
\* other negative length is invalid, otherwise that many raw bytes follow.
Null == [is_null |-> TRUE, bytes |-> <<>>]
Blob(b) == [is_null |-> FALSE, bytes |-> b]

CBytes_from_cursor(buf, pos) ==
    LET l == CInt_from_cursor(buf, pos)
    IN  IF l.kind # "Ok" THEN l
        ELSE IF l.value = -1 THEN Ok(Null, l.pos)
        ELSE IF l.value < 0 THEN Panic("InvalidLength")
        ELSE LET b == cursor_next_value(buf, l.pos, l.value)
             IN  IF b.kind # "Ok" THEN b ELSE Ok(Blob(b.value), b.pos)

\* Consistency::from_cursor: a 2-byte code, kept as the code.
Consistency_from_cursor(buf, pos) ==
    LET r == cursor_next_value(buf, pos, 2)
    IN  IF r.kind # "Ok" THEN r ELSE Ok(from_u16_bytes(r.value), r.pos)

(***************************************************************************)
(* frame/frame_error.rs.                                                   *)
(***************************************************************************)
\* ASCII of the five write-type tags.
TagSimple        == <<83, 73, 77, 80, 76, 69>>
TagBatch         == <<66, 65, 84, 67, 72>>
TagUnloggedBatch == <<85, 78, 76, 79, 71, 71, 69, 68, 95, 66, 65, 84, 67, 72>>
TagCounter       == <<67, 79, 85, 78, 84, 69, 82>>
TagBatchLog      == <<66, 65, 84, 67, 72, 95, 76, 79, 71>>

WriteType_from_cursor(buf, pos) ==
    LET s == CString_from_cursor(buf, pos)
    IN  IF s.kind # "Ok" THEN s
        ELSE CASE s.value = TagSimple        -> Ok("Simple", s.pos)
               [] s.value = TagBatch         -> Ok("Batch", s.pos)
               [] s.value = TagUnloggedBatch -> Ok("UnloggedBatch", s.pos)
               [] s.value = TagCounter       -> Ok("Counter", s.pos)
               [] s.value = TagBatchLog      -> Ok("BatchLog", s.pos)
               [] OTHER                      -> Panic("unreachable")

SimpleError_from_cursor(buf, pos) == Ok([empty |-> TRUE], pos)

UnavailableError_swapped(buf, pos) ==
    LET cl == Consistency_from_cursor(buf, pos) IN
    IF cl.kind # "Ok" THEN cl ELSE
    LET alive == CInt_from_cursor(buf, cl.pos) IN
    IF alive.kind # "Ok" THEN alive ELSE
    LET required == CInt_from_cursor(buf, alive.pos) IN
    IF required.kind # "Ok" THEN required ELSE
    Ok([cl |-> cl.value, required |-> required.value, alive |-> alive.value],
       required.pos)

UnavailableError_from_cursor(buf, pos) ==
    LET cl == Consistency_from_cursor(buf, pos) IN
    IF cl.kind # "Ok" THEN cl ELSE
    LET required == CInt_from_cursor(buf, cl.pos) IN
    IF required.kind # "Ok" THEN required ELSE
    LET alive == CInt_from_cursor(buf, required.pos) IN
    IF alive.kind # "Ok" THEN alive ELSE
    Ok([cl |-> cl.value, required |-> required.value, alive |-> alive.value],
       alive.pos)

WriteTimeoutError_from_cursor(buf, pos) ==
    LET cl == Consistency_from_cursor(buf, pos) IN
    IF cl.kind # "Ok" THEN cl ELSE
    LET received == CInt_from_cursor(buf, cl.pos) IN
    IF received.kind # "Ok" THEN received ELSE
    LET blockfor == CInt_from_cursor(buf, received.pos) IN
    IF blockfor.kind # "Ok" THEN blockfor ELSE
    LET write_type == WriteType_from_cursor(buf, blockfor.pos) IN
    IF write_type.kind # "Ok" THEN write_type ELSE
    Ok([cl |-> cl.value, received |-> received.value,
        blockfor |-> blockfor.value, write_type |-> write_type.value],
       write_type.pos)

ReadTimeoutError_from_cursor(buf, pos) ==
    LET cl == Consistency_from_cursor(buf, pos) IN
    IF cl.kind # "Ok" THEN cl ELSE
    LET received == CInt_from_cursor(buf, cl.pos) IN
    IF received.kind # "Ok" THEN received ELSE
    LET blockfor == CInt_from_cursor(buf, received.pos) IN
    IF blockfor.kind # "Ok" THEN blockfor ELSE
    LET raw == cursor_next_value(buf, blockfor.pos, 1) IN
    IF raw.kind # "Ok" THEN raw ELSE
    Ok([cl |-> cl.value, received |-> received.value,
        blockfor |-> blockfor.value, data_present |-> as_u8(from_bytes(raw.value))],
       raw.pos)

ReadFailureError_from_cursor(buf, pos) ==
    LET cl == Consistency_from_cursor(buf, pos) IN
    IF cl.kind # "Ok" THEN cl ELSE
    LET received == CInt_from_cursor(buf, cl.pos) IN
    IF received.kind # "Ok" THEN received ELSE
    LET blockfor == CInt_from_cursor(buf, received.pos) IN
    IF blockfor.kind # "Ok" THEN blockfor ELSE
    LET num_failures == CInt_from_cursor(buf, blockfor.pos) IN
    IF num_failures.kind # "Ok" THEN num_failures ELSE
    LET raw == cursor_next_value(buf, num_failures.pos, 1) IN
    IF raw.kind # "Ok" THEN raw ELSE
    Ok([cl |-> cl.value, received |-> received.value,
        blockfor |-> blockfor.value, num_failures |-> num_failures.value,
        data_present |-> as_u8(from_bytes(raw.value))],
       raw.pos)

replica_has_responded_is_one(self) == self.data_present = 1

\* ReadTimeoutError::replica_has_responded / ReadFailureError::replica_has_responded.
replica_has_responded(self) == self.data_present # 0

FunctionFailureError_from_cursor(buf, pos) ==
    LET keyspace == CString_from_cursor(buf, pos) IN
    IF keyspace.kind # "Ok" THEN keyspace ELSE
    LET function == CString_from_cursor(buf, keyspace.pos) IN
    IF function.kind # "Ok" THEN function ELSE
    LET arg_types == CStringList_from_cursor(buf, function.pos) IN
    IF arg_types.kind # "Ok" THEN arg_types ELSE
    Ok([keyspace |-> keyspace.value, function |-> function.value,
        arg_types |-> arg_types.value],
       arg_types.pos)

WriteFailureError_from_cursor(buf, pos) ==
    LET cl == Consistency_from_cursor(buf, pos) IN
    IF cl.kind # "Ok" THEN cl ELSE
    LET received == CInt_from_cursor(buf, cl.pos) IN
    IF received.kind # "Ok" THEN received ELSE
    LET blockfor == CInt_from_cursor(buf, received.pos) IN
    IF blockfor.kind # "Ok" THEN blockfor ELSE
    LET num_failures == CInt_from_cursor(buf, blockfor.pos) IN
    IF num_failures.kind # "Ok" THEN num_failures ELSE
    LET write_type == WriteType_from_cursor(buf, num_failures.pos) IN
    IF write_type.kind # "Ok" THEN write_type ELSE
    Ok([cl |-> cl.value, received |-> received.value,
        blockfor |-> blockfor.value, num_failures |-> num_failures.value,
        write_type |-> write_type.value],
       write_type.pos)

AlreadyExistsError_from_cursor(buf, pos) ==
    LET ks == CString_from_cursor(buf, pos) IN
    IF ks.kind # "Ok" THEN ks ELSE
    LET table == CString_from_cursor(buf, ks.pos) IN
    IF table.kind # "Ok" THEN table ELSE
    Ok([ks |-> ks.value, table |-> table.value], table.pos)

UnpreparedError_from_cursor(buf, pos) ==
    LET id == CBytes_from_cursor(buf, pos) IN
    IF id.kind # "Ok" THEN id ELSE Ok([id |-> id.value], id.pos)

\* One arm of the match: the variant wrapped around its decoded payload.
Variant(name, r) ==
    IF r.kind # "Ok" THEN r ELSE Ok([variant |-> name, info |-> r.value], r.pos)

\* The match with the Overloaded and IsBootstrapping arms exchanged.
from_cursor_with_code_exchanged(buf, pos, error_code) ==
    CASE error_code = 0    -> Variant("Server", SimpleError_from_cursor(buf, pos))
      [] error_code = 10   -> Variant("Protocol", SimpleError_from_cursor(buf, pos))
      [] error_code = 256  -> Variant("Authentication", SimpleError_from_cursor(buf, pos))
      [] error_code = 4096 -> Variant("Unavailable", UnavailableError_from_cursor(buf, pos))
      [] error_code = 4097 -> Variant("IsBootstrapping", SimpleError_from_cursor(buf, pos))
      [] error_code = 4098 -> Variant("Overloaded", SimpleError_from_cursor(buf, pos))
      [] error_code = 4099 -> Variant("Truncate", SimpleError_from_cursor(buf, pos))
      [] error_code = 4352 -> Variant("WriteTimeout", WriteTimeoutError_from_cursor(buf, pos))
      [] error_code = 4608 -> Variant("ReadTimeout", ReadTimeoutError_from_cursor(buf, pos))
      [] error_code = 4864 -> Variant("ReadFailure", ReadFailureError_from_cursor(buf, pos))
      [] error_code = 5120 -> Variant("FunctionFailure", FunctionFailureError_from_cursor(buf, pos))
      [] error_code = 5376 -> Variant("WriteFailure", WriteFailureError_from_cursor(buf, pos))
      [] error_code = 8192 -> Variant("Syntax", SimpleError_from_cursor(buf, pos))
      [] error_code = 8448 -> Variant("Unauthorized", SimpleError_from_cursor(buf, pos))
      [] error_code = 8704 -> Variant("Invalid", SimpleError_from_cursor(buf, pos))
      [] error_code = 8960 -> Variant("Config", SimpleError_from_cursor(buf, pos))
      [] error_code = 9216 -> Variant("AlreadyExists", AlreadyExistsError_from_cursor(buf, pos))
      [] error_code = 9472 -> Variant("Unprepared", UnpreparedError_from_cursor(buf, pos))
      [] OTHER             -> Panic("unreachable")

\* AdditionalErrorInfo::from_cursor_with_code: 0x0000 = 0, 0x000A = 10,
\* 0x0100 = 256, 0x1000 = 4096, ..., 0x2500 = 9472.
from_cursor_with_code(buf, pos, error_code) ==
    CASE error_code = 0    -> Variant("Server", SimpleError_from_cursor(buf, pos))
      [] error_code = 10   -> Variant("Protocol", SimpleError_from_cursor(buf, pos))
      [] error_code = 256  -> Variant("Authentication", SimpleError_from_cursor(buf, pos))
      [] error_code = 4096 -> Variant("Unavailable", UnavailableError_from_cursor(buf, pos))
      [] error_code = 4097 -> Variant("Overloaded", SimpleError_from_cursor(buf, pos))
      [] error_code = 4098 -> Variant("IsBootstrapping", SimpleError_from_cursor(buf, pos))
      [] error_code = 4099 -> Variant("Truncate", SimpleError_from_cursor(buf, pos))
      [] error_code = 4352 -> Variant("WriteTimeout", WriteTimeoutError_from_cursor(buf, pos))
      [] error_code = 4608 -> Variant("ReadTimeout", ReadTimeoutError_from_cursor(buf, pos))
      [] error_code = 4864 -> Variant("ReadFailure", ReadFailureError_from_cursor(buf, pos))
      [] error_code = 5120 -> Variant("FunctionFailure", FunctionFailureError_from_cursor(buf, pos))
      [] error_code = 5376 -> Variant("WriteFailure", WriteFailureError_from_cursor(buf, pos))
      [] error_code = 8192 -> Variant("Syntax", SimpleError_from_cursor(buf, pos))
      [] error_code = 8448 -> Variant("Unauthorized", SimpleError_from_cursor(buf, pos))
      [] error_code = 8704 -> Variant("Invalid", SimpleError_from_cursor(buf, pos))
      [] error_code = 8960 -> Variant("Config", SimpleError_from_cursor(buf, pos))
      [] error_code = 9216 -> Variant("AlreadyExists", AlreadyExistsError_from_cursor(buf, pos))
      [] error_code = 9472 -> Variant("Unprepared", UnpreparedError_from_cursor(buf, pos))
      [] OTHER             -> Panic("unreachable")

\* CDRSError::from_cursor.
CDRSError_from_cursor(buf, pos) ==
    LET error_code == CInt_from_cursor(buf, pos) IN
    IF error_code.kind # "Ok" THEN error_code ELSE
    LET message == CString_from_cursor(buf, error_code.pos) IN
    IF message.kind # "Ok" THEN message ELSE
    LET additional_info == from_cursor_with_code(buf, message.pos, error_code.value) IN
    IF additional_info.kind # "Ok" THEN additional_info ELSE
    Ok([error_code |-> error_code.value, message |-> message.value,
        additional_info |-> additional_info.value],
       additional_info.pos)

(***************************************************************************)
(* types/data_serialization_types.rs.                                      *)
(***************************************************************************)
\* try_from_bytes(bytes).map(|i| i as T): the cast under Ok, an Err passed on.
decode_bigint(bytes) ==
    LET r == try_from_bytes(bytes)
    IN  IF r.kind = "Ok" THEN Good(as_i64(r.value)) ELSE r

decode_boolean_is_one(bytes) ==
    IF Len(bytes) = 0 THEN Err("UnexpectedEof") ELSE Good(bytes[1] = 1)

decode_boolean(bytes) ==
    IF Len(bytes) = 0 THEN Err("UnexpectedEof") ELSE Good(bytes[1] # 0)

decode_int(bytes) ==
    LET r == try_from_bytes(bytes)
    IN  IF r.kind = "Ok" THEN Good(as_i32(r.value)) ELSE r

decode_date(bytes) ==
    LET r == try_from_bytes(bytes)
    IN  IF r.kind = "Ok" THEN Good(as_i32(r.value)) ELSE r

\* b'E'
separator == 69

\* bytes.split(|ch| ch == separator): the runs between separators; a slice
\* without a separator is one run, an empty slice one empty run.
RECURSIVE split(_, _)
split(bytes, sep) ==
    IF \A i \in 1..Len(bytes) : bytes[i] # sep
    THEN <<bytes>>
    ELSE LET i == CHOOSE k \in 1..Len(bytes) :
                      bytes[k] = sep /\ \A j \in 1..(k - 1) : bytes[j] # sep
         IN  <<SubSeq(bytes, 1, i - 1)>> \o split(SubSeq(bytes, i + 1, Len(bytes)), sep)

\* The value is unscaled * 10^scale as f32, kept as the pair it is computed
\* from: unscaled an i64 (8 digits), scale the i64 cast to i32.
decode_decimal(bytes) ==
    LET lr == split(bytes, separator)
        unscaled == try_i_from_bytes(lr[1])
    IN  IF unscaled.kind = "Err" THEN unscaled
        ELSE IF Len(lr) < 2 THEN Panic("index out of bounds")
        ELSE LET scaled == try_i_from_bytes(lr[2])
             IN  IF scaled.kind = "Err" THEN scaled
                 ELSE Good([unscaled |-> unscaled.value,
                            scale |-> as_i32(scaled.value)])

decode_inet(bytes) ==
    CASE Len(bytes) = 4 ->
           Good([v |-> "V4", addr |-> <<bytes[1], bytes[2], bytes[3], bytes[4]>>])
      [] Len(bytes) = 16 ->
           Good([v |-> "V6",
                 addr |-> << from_u16_bytes(SubSeq(bytes, 1, 2)),
                             from_u16_bytes(SubSeq(bytes, 3, 4)),
                             from_u16_bytes(SubSeq(bytes, 5, 6)),
                             from_u16_bytes(SubSeq(bytes, 7, 8)),
                             from_u16_bytes(SubSeq(bytes, 9, 10)),
                             from_u16_bytes(SubSeq(bytes, 11, 12)),
                             from_u16_bytes(SubSeq(bytes, 13, 14)),
                             from_u16_bytes(SubSeq(bytes, 15, 16)) >>])
      [] OTHER -> Panic("unreachable")

decode_timestamp(bytes) ==
    LET r == try_from_bytes(bytes)
    IN  IF r.kind = "Ok" THEN Good(as_i64(r.value)) ELSE r

\* (0..l).map(|_| CBytes::from_cursor(&mut cursor)).collect(): l reads, each
\* from where the one before stopped; none when l <= 0.
RECURSIVE NextBlobs(_, _, _)
NextBlobs(buf, pos, l) ==
    IF l <= 0 THEN Ok(<<>>, pos)
    ELSE LET b == CBytes_from_cursor(buf, pos)
         IN  IF b.kind # "Ok" THEN b
             ELSE LET rest == NextBlobs(buf, b.pos, l - 1)
                  IN  IF rest.kind # "Ok" THEN rest
                      ELSE Ok(<<b.value>> \o rest.value, rest.pos)

\* The same for (CBytes::from_cursor, CBytes::from_cursor) pairs.
RECURSIVE NextPairs(_, _, _)
NextPairs(buf, pos, l) ==
    IF l <= 0 THEN Ok(<<>>, pos)
    ELSE LET k == CBytes_from_cursor(buf, pos)
         IN  IF k.kind # "Ok" THEN k
             ELSE LET v == CBytes_from_cursor(buf, k.pos)
                  IN  IF v.kind # "Ok" THEN v
                      ELSE LET rest == NextPairs(buf, v.pos, l - 1)
                           IN  IF rest.kind # "Ok" THEN rest
                               ELSE Ok(<< <<k.value, v.value>> >> \o rest.value,
                                       rest.pos)

\* Ok(list), or the panic of the read that failed.
Collected(r) == IF r.kind = "Ok" THEN Good(r.value) ELSE r

decode_list_short(bytes) ==
    LET l == CInt_from_cursor(bytes, 0)
    IN  IF l.kind # "Ok" THEN l
        ELSE Collected(NextBlobs(bytes, l.pos, l.value - 1))

decode_list(bytes) ==
    LET l == CInt_from_cursor(bytes, 0)
    IN  IF l.kind # "Ok" THEN l
        ELSE Collected(NextBlobs(bytes, l.pos, l.value))

decode_set_rejects_negative(bytes) ==
    LET l == CInt_from_cursor(bytes, 0)
    IN  IF l.kind # "Ok" THEN l
        ELSE IF l.value < 0 THEN Err("InvalidLength")
        ELSE Collected(NextBlobs(bytes, l.pos, l.value))

decode_set(bytes) ==
    LET l == CInt_from_cursor(bytes, 0)
    IN  IF l.kind # "Ok" THEN l
        ELSE Collected(NextBlobs(bytes, l.pos, l.value))

decode_map(bytes) ==
    LET l == CInt_from_cursor(bytes, 0)
    IN  IF l.kind # "Ok" THEN l
        ELSE Collected(NextPairs(bytes, l.pos, l.value))

decode_smallint(bytes) ==
    LET r == try_from_bytes(bytes)
    IN  IF r.kind = "Ok" THEN Good(as_i16(r.value)) ELSE r

\* bytes[0] as i8: indexing an empty slice panics.
decode_tinyint(bytes) ==
    IF Len(bytes) = 0 THEN Panic("index out of bounds")
    ELSE Good(SignedByte(bytes[1]))

(***************************************************************************)
(* The buffers a server can send, by the wire layout: big-endian, no       *)
(* padding between fields.                                                 *)
(***************************************************************************)
\* [int]: 4 bytes, two's complement.
EncInt(n) ==
    << (n \div 16777216) % 256, (n \div 65536) % 256, (n \div 256) % 256, n % 256 >>

\* [short]: 2 bytes, unsigned.
EncShort(n) == << (n \div 256) % 256, n % 256 >>

\* [string]: a [short] length, then the bytes.
EncString(s) == EncShort(Len(s)) \o s

RECURSIVE Flatten(_)
Flatten(ss) == IF ss = <<>> THEN <<>> ELSE Head(ss) \o Flatten(Tail(ss))

\* [string list]: a [short] count, then the strings.
EncStringList(ss) ==
    EncShort(Len(ss)) \o Flatten([i \in 1..Len(ss) |-> EncString(ss[i])])

\* [bytes]: an [int] length and the bytes, or the length -1 for null.
EncBytes(b) == IF b.is_null THEN EncInt(-1) ELSE EncInt(Len(b.bytes)) \o b.bytes

EncBlobs(bs) == Flatten([i \in 1..Len(bs) |-> EncBytes(bs[i])])

\* An ERROR body: the code, the message, the variant's payload.
EncFrame(code, msg, body) == EncInt(code) \o EncString(msg) \o body

IsPrefix(p, s) == Len(p) <= Len(s) /\ SubSeq(s, 1, Len(p)) = p

\* All sequences over S of length 0..n.
RECURSIVE SeqsUpTo(_, _)
SeqsUpTo(S, n) ==
    IF n <= 0 THEN {<<>>}
    ELSE LET shorter == SeqsUpTo(S, n - 1)
         IN  shorter \cup {Append(s, x) : s \in shorter, x \in S}

(***************************************************************************)
(* Bounds and the inputs drawn within them.                                *)
(***************************************************************************)
MaxSliceLen == 4
MaxMsgLen == 1
MaxCount == 2

\* Value slices: every sequence of these bytes up to MaxSliceLen, and the
\* slices of 7..17 bytes made of whole words, one byte short or one over.
ByteVals == {0, 1, 7, 69, 255}
Slices == SeqsUpTo(ByteVals, MaxSliceLen)

Words == {<<0, 0, 0, 5>>, <<255, 255, 255, 255>>, <<128, 0, 1, 2>>}
WordSlices ==
    LET two   == {a \o b : a \in Words, b \in Words}
        three == {a \o b : a \in two, b \in Words}
        four  == {a \o b : a \in two, b \in two}
    IN  two \cup three \cup four
WideSlices ==
    WordSlices \cup {Tail(s) : s \in WordSlices} \cup {s \o <<9>> : s \in WordSlices}

\* ERROR bodies.
SimpleCodes == {0, 10, 256, 4097, 4098, 4099, 8192, 8448, 8704, 8960}
StructuredCodes == {4096, 4352, 4608, 4864, 5120, 5376, 9216, 9472}
KnownCodes == SimpleCodes \cup StructuredCodes
\* 0x9999, and two more codes no arm matches.
UnknownCodes == {39321, 1, -1}

Msgs == {Repeat(97, k) : k \in 0..MaxMsgLen}
ConsVals == {1, 4}
IntVals == {2, 3}
FlagVals == {0, 1, 7, 255}
Names == {<<>>, <<107, 115>>}
NameLists == SeqsUpTo(Names, 2)
Blobs == {Null, Blob(<<1>>), Blob(<<2, 3>>)}
TagBogus == <<66, 79, 71, 85, 83>>
Tags == {TagSimple, TagBatch, TagUnloggedBatch, TagCounter, TagBatchLog}
OtherTags == {TagBogus, <<>>, <<115, 105, 109, 112, 108, 101>>}

UnavailableBody(cl, required, alive) ==
    EncShort(cl) \o EncInt(required) \o EncInt(alive)
WriteTimeoutBody(cl, received, blockfor, tag) ==
    EncShort(cl) \o EncInt(received) \o EncInt(blockfor) \o EncString(tag)
ReadTimeoutBody(cl, received, blockfor, flag) ==
    EncShort(cl) \o EncInt(received) \o EncInt(blockfor) \o <<flag>>
ReadFailureBody(cl, received, blockfor, failures, flag) ==
    EncShort(cl) \o EncInt(received) \o EncInt(blockfor) \o EncInt(failures) \o <<flag>>
FunctionFailureBody(keyspace, function, args) ==
    EncString(keyspace) \o EncString(function) \o EncStringList(args)
WriteFailureBody(cl, received, blockfor, failures, tag) ==
    EncShort(cl) \o EncInt(received) \o EncInt(blockfor) \o EncInt(failures)
        \o EncString(tag)
AlreadyExistsBody(ks, table) == EncString(ks) \o EncString(table)
UnpreparedBody(id) == EncBytes(id)

BodiesOf(code) ==
    CASE code = 4096 ->
           {UnavailableBody(cl, r, a) : cl \in ConsVals, r \in IntVals, a \in IntVals}
      [] code = 4352 ->
           {WriteTimeoutBody(cl, r, b, t) :
               cl \in ConsVals, r \in IntVals, b \in IntVals, t \in Tags \cup OtherTags}
      [] code = 4608 ->
           {ReadTimeoutBody(cl, r, b, f) :
               cl \in ConsVals, r \in IntVals, b \in IntVals, f \in FlagVals}
      [] code = 4864 ->
           {ReadFailureBody(cl, r, b, n, f) :
               cl \in {4}, r \in IntVals, b \in IntVals, n \in IntVals, f \in FlagVals}
      [] code = 5120 ->
           {FunctionFailureBody(k, f, a) : k \in Names, f \in Names, a \in NameLists}
      [] code = 5376 ->
           {WriteFailureBody(cl, r, b, n, t) :
               cl \in {4}, r \in IntVals, b \in IntVals, n \in IntVals,
               t \in Tags \cup OtherTags}
      [] code = 9216 ->
           {AlreadyExistsBody(k, t) : k \in Names, t \in Names}
      [] code = 9472 ->
           {UnpreparedBody(id) : id \in Blobs} \cup {EncInt(0), EncInt(-2)}
      [] OTHER -> {}

\* Bodies sent with any code at all: nothing, a stray byte, and one body of
\* each structured variant.
SampleBodies ==
    { <<>>, <<0>>,
      UnavailableBody(4, 3, 2),
      WriteTimeoutBody(1, 2, 3, TagBatchLog),
      ReadTimeoutBody(4, 3, 2, 1),
      ReadFailureBody(4, 3, 2, 1, 0),
      FunctionFailureBody(<<107, 115>>, <<102>>, << <<105>>, <<>> >>),
      WriteFailureBody(4, 2, 3, 1, TagSimple),
      AlreadyExistsBody(<<107, 115>>, <<116>>),
      UnpreparedBody(Blob(<<2, 3>>)) }

OwnFrames ==
    UNION {{EncFrame(c, m, b) : m \in Msgs, b \in BodiesOf(c)} : c \in StructuredCodes}
SampleFrames ==
    {EncFrame(c, m, b) : c \in KnownCodes \cup UnknownCodes, m \in Msgs, b \in SampleBodies}
\* Bodies that stop early: every proper prefix of a frame with the longest message.
TruncatedFrames ==
    UNION {{SubSeq(f, 1, k) : k \in 0..(Len(f) - 1)} :
              f \in {EncFrame(c, Repeat(97, MaxMsgLen), b) :
                         c \in {4096, 4608, 5376, 39321}, b \in SampleBodies}}
Frames == OwnFrames \cup SampleFrames \cup TruncatedFrames

\* A write-type tag alone at the head of a buffer.
TagBuffers ==
    {EncString(t) \o rest : t \in Tags \cup OtherTags, rest \in {<<>>, <<0>>}}

\* Collection payloads: a count, then blobs (as many, fewer or more): up to
\* MaxCount elements of a list, or up to MaxCount key/value pairs of a map,
\* two of the pairs with the same key.
BlobPairs ==
    { <<Blob(<<1>>), Blob(<<2, 3>>)>>, <<Blob(<<1>>), Null>>,
      <<Blob(<<2, 3>>), Blob(<<1>>)>> }
BlobSeqs ==
    SeqsUpTo(Blobs, MaxCount) \cup {Flatten(ps) : ps \in SeqsUpTo(BlobPairs, MaxCount)}
Payloads ==
    {EncInt(n) \o EncBlobs(bs) : n \in (-1)..(MaxCount + 1), bs \in BlobSeqs}

\* ReadTimeout and ReadFailure bodies with every value of the flag byte.
AllFlags == 0..255
FlagFrames ==
    {EncFrame(4608, m, ReadTimeoutBody(4, 3, 2, f)) : m \in Msgs, f \in AllFlags}
    \cup {EncFrame(4864, m, ReadFailureBody(4, 3, 2, 1, f)) : m \in Msgs, f \in AllFlags}

Inputs ==
    Slices \cup WideSlices \cup Frames \cup TagBuffers \cup Payloads \cup FlagFrames

(***************************************************************************)
(* The state machine: a buffer arrives, one decoder is called on it.       *)
(***************************************************************************)
None == [kind |-> "None"]

Init ==
    /\ input \in Inputs
    /\ fn = "none"
    /\ out = None

CDRSErrorFromCursor ==
    /\ fn = "none"
    /\ fn' = "CDRSError::from_cursor"
    /\ out' = CDRSError_from_cursor(input, 0)
    /\ UNCHANGED input

WriteTypeFromCursor ==
    /\ fn = "none"
    /\ fn' = "WriteType::from_cursor"
    /\ out' = WriteType_from_cursor(input, 0)
    /\ UNCHANGED input

DecodeBigint ==
    /\ fn = "none"
    /\ fn' = "decode_bigint"
    /\ out' = decode_bigint(input)
    /\ UNCHANGED input

DecodeBoolean ==
    /\ fn = "none"
    /\ fn' = "decode_boolean"
    /\ out' = decode_boolean(input)
    /\ UNCHANGED input

DecodeInt ==
    /\ fn = "none"
    /\ fn' = "decode_int"
    /\ out' = decode_int(input)
    /\ UNCHANGED input

DecodeDate ==
    /\ fn = "none"
    /\ fn' = "decode_date"
    /\ out' = decode_date(input)
    /\ UNCHANGED input

DecodeDecimal ==
    /\ fn = "none"
    /\ fn' = "decode_decimal"
    /\ out' = decode_decimal(input)
    /\ UNCHANGED input

DecodeInet ==
    /\ fn = "none"
    /\ fn' = "decode_inet"
    /\ out' = decode_inet(input)
    /\ UNCHANGED input

DecodeTimestamp ==
    /\ fn = "none"
    /\ fn' = "decode_timestamp"
    /\ out' = decode_timestamp(input)
    /\ UNCHANGED input

DecodeList ==
    /\ fn = "none"
    /\ fn' = "decode_list"
    /\ out' = decode_list(input)
    /\ UNCHANGED input

DecodeSet ==
    /\ fn = "none"
    /\ fn' = "decode_set"
    /\ out' = decode_set(input)
    /\ UNCHANGED input

DecodeMap ==
    /\ fn = "none"
    /\ fn' = "decode_map"
    /\ out' = decode_map(input)
    /\ UNCHANGED input

DecodeSmallint ==
    /\ fn = "none"
    /\ fn' = "decode_smallint"
    /\ out' = decode_smallint(input)
    /\ UNCHANGED input

DecodeTinyint ==
    /\ fn = "none"
    /\ fn' = "decode_tinyint"
    /\ out' = decode_tinyint(input)
    /\ UNCHANGED input

\* The caller asks a decoded ReadTimeout or ReadFailure whether a replica
\* responded.
ReplicaHasResponded ==
    /\ fn = "CDRSError::from_cursor"
    /\ out.kind = "Ok"
    /\ out.value.additional_info.variant \in {"ReadTimeout", "ReadFailure"}
    /\ fn' = "replica_has_responded"
    /\ out' = Good(replica_has_responded(out.value.additional_info.info))
    /\ UNCHANGED input

Next ==
    \/ ReplicaHasResponded
    \/ CDRSErrorFromCursor
    \/ WriteTypeFromCursor
    \/ DecodeBigint
    \/ DecodeBoolean
    \/ DecodeInt
    \/ DecodeDate
    \/ DecodeDecimal
    \/ DecodeInet
    \/ DecodeTimestamp
    \/ DecodeList
    \/ DecodeSet
    \/ DecodeMap
    \/ DecodeSmallint
    \/ DecodeTinyint

Spec == Init /\ [][Next]_vars

(***************************************************************************)
(* The properties.                                                         *)
(***************************************************************************)
\* The table of error codes and variants (0x0000 .. 0x2500).
VariantOfCode ==
    (0 :> "Server") @@ (10 :> "Protocol") @@ (256 :> "Authentication")
    @@ (4096 :> "Unavailable") @@ (4097 :> "Overloaded")
    @@ (4098 :> "IsBootstrapping") @@ (4099 :> "Truncate")
    @@ (4352 :> "WriteTimeout") @@ (4608 :> "ReadTimeout")
    @@ (4864 :> "ReadFailure") @@ (5120 :> "FunctionFailure")
    @@ (5376 :> "WriteFailure") @@ (8192 :> "Syntax")
    @@ (8448 :> "Unauthorized") @@ (8704 :> "Invalid") @@ (8960 :> "Config")
    @@ (9216 :> "AlreadyExists") @@ (9472 :> "Unprepared")

\* C1: an ERROR body whose code is none of the 18 of the table, its code and
\* message complete, makes CDRSError::from_cursor end in a decode failure
\* returned to the caller (an Err), never in a panic.
C1_UnknownCodeIsDecodeFailure ==
    fn = "CDRSError::from_cursor" =>
        \A c \in UnknownCodes, m \in Msgs :
            IsPrefix(EncInt(c) \o EncString(m), input) => out.kind = "Err"

\* C2: every CDRSError that CDRSError::from_cursor produces carries one of the
\* 18 codes and the variant the table gives that code, the code being the one
\* on the wire; the table gives no variant to two codes.
C2_VariantMatchesCode ==
    /\ \A c, d \in DOMAIN VariantOfCode :
           VariantOfCode[c] = VariantOfCode[d] => c = d
    /\ (fn = "CDRSError::from_cursor" /\ out.kind = "Ok") =>
           /\ out.value.error_code \in DOMAIN VariantOfCode
           /\ out.value.additional_info.variant = VariantOfCode[out.value.error_code]
           /\ IsPrefix(EncInt(out.value.error_code), input)

\* C2's case: a WriteFailure body (0x1500) decoded into the WriteFailure variant.
C2_Witness ==
    /\ fn = "CDRSError::from_cursor"
    /\ out.kind = "Ok"
    /\ out.value.error_code = 5376
    /\ out.value.additional_info.variant = "WriteFailure"

\* C3: WriteType::from_cursor on a tag that is none of the five yields a
\* decode failure (an Err), and so does CDRSError::from_cursor on a
\* WriteTimeout (0x1100) or WriteFailure (0x1500) body carrying such a tag.
C3_UnknownWriteTypeIsDecodeFailure ==
    /\ fn = "WriteType::from_cursor" =>
           \A t \in OtherTags : IsPrefix(EncString(t), input) => out.kind = "Err"
    /\ fn = "CDRSError::from_cursor" =>
           \A m \in Msgs, cl \in ConsVals, r \in IntVals, b \in IntVals, t \in OtherTags :
               /\ IsPrefix(EncFrame(4352, m, WriteTimeoutBody(cl, r, b, t)), input)
                      => out.kind = "Err"
               /\ \A n \in IntVals :
                      IsPrefix(EncFrame(5376, m, WriteFailureBody(cl, r, b, n, t)), input)
                          => out.kind = "Err"

\* The buffer ends before the 4-byte code or the length-prefixed message does.
HeaderCutShort(buf) ==
    \/ Len(buf) < 6
    \/ Len(buf) < 6 + buf[5] * 256 + buf[6]

\* C4: when the buffer ends before the code or the message is fully read,
\* CDRSError::from_cursor returns an end-of-buffer error value to its caller
\* and no CDRSError.
C4_ShortHeaderIsEndOfBufferError ==
    (fn = "CDRSError::from_cursor" /\ HeaderCutShort(input)) =>
        /\ out.kind = "Err"
        /\ out.err = "UnexpectedEndOfBuffer"

\* out is the failure of a slice of the wrong width, or else the big-endian
\* two's-complement value of a slice of the width.
FixedWidth(width, IsValue(_)) ==
    IF Len(input) # width
    THEN out.kind = "Err"
    ELSE out.kind = "Ok" /\ IsValue(out.value)

\* C5: each fixed-width integer decoder fails (returns an Err) on a slice whose
\* length is not its width (bigint 8, int 4, smallint 2, tinyint 1, date 4,
\* timestamp 8) and yields the big-endian two's-complement value of a slice
\* of exactly that width.
C5_FixedWidthIntegers ==
    /\ fn = "decode_bigint" => FixedWidth(8, LAMBDA v : v = input)
    /\ fn = "decode_timestamp" => FixedWidth(8, LAMBDA v : v = input)
    /\ fn = "decode_int" => FixedWidth(4, LAMBDA v : EncInt(v) = input)
    /\ fn = "decode_date" => FixedWidth(4, LAMBDA v : EncInt(v) = input)
    /\ fn = "decode_smallint" =>
           FixedWidth(2, LAMBDA v : v \in (-32768)..32767 /\ EncShort(v) = input)
    /\ fn = "decode_tinyint" =>
           FixedWidth(1, LAMBDA v : v \in (-128)..127 /\ <<v % 256>> = input)

\* C6: decode_inet goes by the length of the slice: 4 bytes are the IPv4
\* address of those bytes in order, 16 bytes the IPv6 address of the eight
\* big-endian 16-bit groups, any other length a decode failure (an Err).
C6_InetByLength ==
    fn = "decode_inet" =>
        CASE Len(input) = 4 ->
               out = Good([v |-> "V4", addr |-> input])
          [] Len(input) = 16 ->
               /\ out.kind = "Ok"
               /\ out.value.v = "V6"
               /\ Len(out.value.addr) = 8
               /\ Flatten([i \in 1..8 |-> EncShort(out.value.addr[i])]) = input
          [] OTHER -> out.kind = "Err"

\* C7: decode_boolean fails with unexpected-end-of-buffer on the empty slice;
\* on any other slice it returns true exactly when the first byte is not 0,
\* whatever follows.
C7_BooleanFirstByte ==
    fn = "decode_boolean" =>
        /\ input = <<>> => (out.kind = "Err" /\ out.err = "UnexpectedEof")
        /\ input # <<>> => (out.kind = "Ok" /\ (out.value <=> Head(input) # 0))

\* C7's case: [7, 0] decodes to true.
C7_Witness ==
    /\ fn = "decode_boolean"
    /\ input = <<7, 0>>
    /\ out = Good(TRUE)

\* The variant a tag names.
WriteTypeOfTag ==
    (TagSimple :> "Simple") @@ (TagBatch :> "Batch")
    @@ (TagUnloggedBatch :> "UnloggedBatch") @@ (TagCounter :> "Counter")
    @@ (TagBatchLog :> "BatchLog")

\* The call decoded the ERROR body `frame` (a prefix of the buffer) into the
\* variant `variant` holding `info`, and left the cursor at the end of it.
DecodesTo(frame, code, m, variant, info) ==
    IsPrefix(frame, input) =>
        /\ out.kind = "Ok"
        /\ out.value = [error_code |-> code, message |-> m,
                        additional_info |-> [variant |-> variant, info |-> info]]
        /\ out.pos = Len(frame)

\* The buffer starts with this code and this message.
Starts(code, m) == IsPrefix(EncInt(code) \o EncString(m), input)

\* C8: each structured variant takes its k-th declared field from the k-th
\* field on the wire, each read starting where the one before ended, with no
\* padding: a body of code 0x1000 with consistency cl, required r and alive a
\* decodes to Unavailable{cl, required: r, alive: a}, the cursor left 10
\* bytes past the message; likewise WriteTimeout, ReadTimeout, ReadFailure,
\* FunctionFailure, WriteFailure and AlreadyExists.
C8_FieldsInWireOrder ==
    fn = "CDRSError::from_cursor" =>
      \A m \in Msgs :
        /\ Starts(4096, m) =>
              \A cl \in ConsVals, r \in IntVals, a \in IntVals :
                /\ DecodesTo(EncFrame(4096, m, UnavailableBody(cl, r, a)), 4096, m,
                             "Unavailable", [cl |-> cl, required |-> r, alive |-> a])
                /\ IsPrefix(EncFrame(4096, m, UnavailableBody(cl, r, a)), input)
                       => out.pos = 6 + Len(m) + 10
        /\ Starts(4352, m) =>
              \A cl \in ConsVals, r \in IntVals, b \in IntVals, t \in Tags :
                DecodesTo(EncFrame(4352, m, WriteTimeoutBody(cl, r, b, t)), 4352, m,
                          "WriteTimeout",
                          [cl |-> cl, received |-> r, blockfor |-> b,
                           write_type |-> WriteTypeOfTag[t]])
        /\ Starts(4608, m) =>
              \A cl \in ConsVals, r \in IntVals, b \in IntVals, f \in FlagVals :
                DecodesTo(EncFrame(4608, m, ReadTimeoutBody(cl, r, b, f)), 4608, m,
                          "ReadTimeout",
                          [cl |-> cl, received |-> r, blockfor |-> b,
                           data_present |-> f])
        /\ Starts(4864, m) =>
              \A cl \in ConsVals, r \in IntVals, b \in IntVals, n \in IntVals,
                 f \in FlagVals :
                DecodesTo(EncFrame(4864, m, ReadFailureBody(cl, r, b, n, f)), 4864, m,
                          "ReadFailure",
                          [cl |-> cl, received |-> r, blockfor |-> b,
                           num_failures |-> n, data_present |-> f])
        /\ Starts(5120, m) =>
              \A k \in Names, f \in Names, a \in NameLists :
                DecodesTo(EncFrame(5120, m, FunctionFailureBody(k, f, a)), 5120, m,
                          "FunctionFailure",
                          [keyspace |-> k, function |-> f, arg_types |-> a])
        /\ Starts(5376, m) =>
              \A cl \in ConsVals, r \in IntVals, b \in IntVals, n \in IntVals,
                 t \in Tags :
                DecodesTo(EncFrame(5376, m, WriteFailureBody(cl, r, b, n, t)), 5376, m,
                          "WriteFailure",
                          [cl |-> cl, received |-> r, blockfor |-> b,
                           num_failures |-> n, write_type |-> WriteTypeOfTag[t]])
        /\ Starts(9216, m) =>
              \A k \in Names, t \in Names :
                DecodesTo(EncFrame(9216, m, AlreadyExistsBody(k, t)), 9216, m,
                          "AlreadyExists", [ks |-> k, table |-> t])

\* C8's case: code 0x1000 with required = 3 and alive = 2 after a message of
\* MaxMsgLen bytes.
C8_Witness ==
    /\ fn = "CDRSError::from_cursor"
    /\ input = EncFrame(4096, Repeat(97, MaxMsgLen), UnavailableBody(4, 3, 2))
    /\ out.kind = "Ok"
    /\ out.value.additional_info.variant = "Unavailable"
    /\ out.value.additional_info.info.required = 3
    /\ out.value.additional_info.info.alive = 2
    /\ out.pos = 6 + MaxMsgLen + 10

\* The blobs paired up: <<k1, v1, k2, v2>> as << <<k1, v1>>, <<k2, v2>> >>.
Paired(bs) == [i \in 1..(Len(bs) \div 2) |-> <<bs[2 * i - 1], bs[2 * i]>>]

\* C9: on a payload of a count n >= 0 and n blobs, decode_list and decode_set
\* return those n blobs in wire order; on a count n and n pairs of blobs,
\* decode_map returns those n pairs in wire order, equal keys included.
C9_CollectionsInWireOrder ==
    \A n \in 0..(2 * MaxCount) :
        IsPrefix(EncInt(n), input) =>
            /\ fn \in {"decode_list", "decode_set"} =>
                   \A bs \in {b \in BlobSeqs : Len(b) = n} :
                       IsPrefix(EncInt(n) \o EncBlobs(bs), input) => out = Good(bs)
            /\ fn = "decode_map" =>
                   \A bs \in {b \in BlobSeqs : Len(b) = 2 * n} :
                       IsPrefix(EncInt(n) \o EncBlobs(bs), input)
                           => out = Good(Paired(bs))

\* C9's case: a map payload of two pairs with the same key yields both pairs.
C9_Witness ==
    /\ fn = "decode_map"
    /\ input = EncInt(2) \o EncBlobs(<<Blob(<<1>>), Blob(<<2, 3>>), Blob(<<1>>), Null>>)
    /\ out = Good(<< <<Blob(<<1>>), Blob(<<2, 3>>)>>, <<Blob(<<1>>), Null>> >>)

\* How many separator bytes the slice holds.
Separators(bytes) == Cardinality({i \in 1..Len(bytes) : bytes[i] = separator})

\* C10: decode_decimal on a payload without a separator byte, or with more
\* than one, returns a decode failure (an Err) to the caller: it neither
\* panics nor returns a value.
C10_MalformedDecimalIsDecodeFailure ==
    (fn = "decode_decimal" /\ Separators(input) # 1) => out.kind = "Err"

\* The decoded error took the byte after the ERROR body prefix `head` as the
\* responded flag and stopped just past it, and replica_has_responded() of it
\* is true exactly when that byte is not 0.
FlagFollows(head) ==
    (IsPrefix(head, input) /\ Len(input) > Len(head)) =>
        /\ fn = "CDRSError::from_cursor" =>
               /\ out.kind = "Ok"
               /\ out.pos = Len(head) + 1
        /\ fn = "replica_has_responded" => out = Good(input[Len(head) + 1] # 0)

CountNotPositive(buf) ==
    /\ Len(buf) >= 4
    /\ (buf[1] >= 128 \/ SubSeq(buf, 1, 4) = <<0, 0, 0, 0>>)

\* C12: on a payload whose count is zero or negative, decode_list, decode_set
\* and decode_map read no element and return Ok of the empty sequence,
\* whatever follows the count; a negative count is no failure.
C12_NonPositiveCountIsEmpty ==
    (fn \in {"decode_list", "decode_set", "decode_map"} /\ CountNotPositive(input))
        => out = Good(<<>>)

\* C12's case: decode_set on the count -1 followed by a blob.
C12_Witness ==
    /\ fn = "decode_set"
    /\ input = EncInt(-1) \o EncBlobs(<<Blob(<<2, 3>>)>>)
    /\ out = Good(<<>>)

=============================================================================
